---- MODULE Spec2Model ----
(***************************************************************************)
(* Model of the n-gram aggregation engine of word-frequencies:             *)
(*   util.rs                 LineIterator, get_dictionary                  *)
(*   create_frequencies.rs   calculate_ngrams, merge_ngrams_results,       *)
(*                           calculate_ngrams_threaded, persist_to_file,   *)
(*                           handle_create_frequencies                     *)
(*                                                                         *)
(* Text is modelled as sequences of one-character strings, so that         *)
(* splitting, trimming and dictionary lookup are computed, not assumed.    *)
(* A String is a sequence of characters; a line is a String.               *)
(***************************************************************************)
EXTENDS Integers, Sequences, FiniteSets, TLC

(***************************************************************************)
(* Bounds of the model.                                                    *)
(***************************************************************************)
\* lines fed to one calculate_ngrams run in SpecCount
MaxLines == 3
\* articles fed to the end-to-end threshold run in SpecThreshold
MaxArticles == 42
\* lines per operand shard in SpecMerge
MaxShardLines == 2
\* articles of the corpus that the pipeline (Spec) shards
NArticles == 2
\* shard files ("split" files) in the input directory of the pipeline
NShards == 2
\* num_cpus::get() ranges over 1..MaxCpus
MaxCpus == 3

(***************************************************************************)
(* Characters and strings.                                                 *)
(***************************************************************************)
\* char::is_ascii_punctuation, restricted to the characters the model uses
IsAsciiPunctuation(c) == c \in {"!", "#", "-", "<", ">", "."}

\* char::is_whitespace
IsWhitespace(c) == c \in {" ", "\n"}

\* the byte of an (ASCII) character: String's Ord is byte-wise lexicographic
CharCode(c) ==
  CASE c = "\n" -> 10 [] c = " " -> 32 [] c = "!" -> 33 [] c = "#" -> 35
    [] c = "-" -> 45 [] c = "." -> 46 [] c = "<" -> 60 [] c = ">" -> 62
    [] c = "T" -> 84
    [] c = "a" -> 97 [] c = "c" -> 99 [] c = "d" -> 100 [] c = "e" -> 101
    [] c = "g" -> 103 [] c = "h" -> 104 [] c = "k" -> 107 [] c = "n" -> 110
    [] c = "o" -> 111 [] c = "t" -> 116 [] c = "u" -> 117 [] c = "w" -> 119
    [] OTHER -> 127

RECURSIVE StrLess(_, _)
\* s < t for Strings (Ord for str: lexicographic by byte, a prefix is smaller)
StrLess(s, t) ==
  IF t = <<>> THEN FALSE
  ELSE IF s = <<>> THEN TRUE
  ELSE IF CharCode(Head(s)) # CharCode(Head(t))
       THEN CharCode(Head(s)) < CharCode(Head(t))
  ELSE StrLess(Tail(s), Tail(t))

\* (a1, a2) < (b1, b2) for (String, String): tuple Ord, first component first
PairLess(a, b) == StrLess(a[1], b[1]) \/ (a[1] = b[1] /\ StrLess(a[2], b[2]))

RECURSIVE TrimStart(_)
TrimStart(s) ==
  IF s # <<>> /\ (IsAsciiPunctuation(Head(s)) \/ IsWhitespace(Head(s)))
  THEN TrimStart(Tail(s)) ELSE s

RECURSIVE TrimEnd(_)
TrimEnd(s) ==
  IF s # <<>> /\ (IsAsciiPunctuation(s[Len(s)]) \/ IsWhitespace(s[Len(s)]))
  THEN TrimEnd(SubSeq(s, 1, Len(s) - 1)) ELSE s

\* str::trim_matches(|c| c.is_ascii_punctuation() || c.is_whitespace())
trim_matches(s) == TrimEnd(TrimStart(s))

RECURSIVE SplitFrom(_, _, _)
\* the words of s[i..], cur being the word collected so far
SplitFrom(s, i, cur) ==
  IF i > Len(s) THEN (IF cur = <<>> THEN <<>> ELSE <<cur>>)
  ELSE IF IsWhitespace(s[i])
       THEN (IF cur = <<>> THEN <<>> ELSE <<cur>>) \o SplitFrom(s, i + 1, <<>>)
  ELSE SplitFrom(s, i + 1, Append(cur, s[i]))

\* str::split_whitespace: the maximal runs of non-whitespace characters
split_whitespace(s) == SplitFrom(s, 1, <<>>)

\* the elements of a sequence
Range(s) == {s[i] : i \in DOMAIN s}

(***************************************************************************)
(* The vocabulary (util.rs).                                               *)
(***************************************************************************)
OUT_OF_VOCABULARY_WORD == <<"<", "u", "n", "k", ">">>

the == <<"t", "h", "e">>
cat == <<"c", "a", "t">>
dog == <<"d", "o", "g">>
kot == <<"k", "o", "t">>

\* the lines of the embedded dictionaries (dictionaries/en.txt and pl.txt are
\* data files outside the sources; these are samples of their format): a
\* comment, an entry carrying punctuation and an empty line are among them
EN_DICT == << <<"#", "d", "o", "g">>, the, cat \o <<".">>, <<>> >>
PL_DICT == << kot, <<"#">>, <<"w">>, <<"-">> >>

SupportedLanguages == {"en", "pl"}
LanguageCodes == SupportedLanguages \cup {"xx"}

\* the match of get_dictionary: the bytes of the language, or the Err
dict_bytes(language_code) ==
  CASE language_code = "en" -> [ok |-> TRUE, bytes |-> EN_DICT]
    [] language_code = "pl" -> [ok |-> TRUE, bytes |-> PL_DICT]
    [] OTHER -> [ok |-> FALSE, bytes |-> <<>>]

\* the set get_dictionary collects from the lines: comments dropped, entries
\* trimmed, empty entries dropped (NFKC leaves these ASCII lines as they are)
collect_dictionary(lines) ==
  LET kept == {i \in DOMAIN lines : lines[i] = <<>> \/ Head(lines[i]) # "#"}
  IN {trim_matches(lines[i]) : i \in kept} \ {<<>>}

\* a get_dictionary that falls back to English for an unknown language
get_dictionary_fallback(language_code) ==
  IF dict_bytes(language_code).ok
  THEN [ok |-> TRUE, dict |-> collect_dictionary(dict_bytes(language_code).bytes)]
  ELSE [ok |-> TRUE, dict |-> collect_dictionary(EN_DICT)]

\* get_dictionary: Err for a language without dictionary (dict_bytes?), else
\* Ok(the collected set)
get_dictionary(language_code) ==
  IF dict_bytes(language_code).ok
  THEN [ok |-> TRUE, dict |-> collect_dictionary(dict_bytes(language_code).bytes)]
  ELSE [ok |-> FALSE, dict |-> {}]

(***************************************************************************)
(* Count tables: a map is a function on the set of its keys.               *)
(***************************************************************************)
EmptyMap == <<>>

\* *map.entry(k).or_insert(0) += n
AddTo(m, k, n) ==
  IF k \in DOMAIN m THEN [m EXCEPT ![k] = @ + n]
  ELSE [x \in DOMAIN m \cup {k} |-> IF x = k THEN n ELSE m[x]]

\* map.get(k).unwrap_or(d)
GetOr(m, k, d) == IF k \in DOMAIN m THEN m[k] ELSE d

NgramsResult(total, uni, art, bi) ==
  [total_unigrams |-> total, unigram_counts |-> uni,
   unigram_article_counts |-> art, bigram_counts |-> bi]

EmptyResult == NgramsResult(0, EmptyMap, EmptyMap, EmptyMap)

(***************************************************************************)
(* calculate_ngrams (create_frequencies.rs): one shard in, one result out. *)
(***************************************************************************)
\* a mapping that keeps the spelling of every token
map_token_keep(dict, token) == token

\* the closure of the second map: the token itself if the dictionary has it,
\* the sentinel otherwise
map_token(dict, token) ==
  IF token \in dict THEN token ELSE OUT_OF_VOCABULARY_WORD

\* let tokens: Vec<&str> = split_whitespace().map(trim).map(dictionary).collect()
Tokenize(dict, line) ==
  LET raw == split_whitespace(line)
  IN [i \in DOMAIN raw |-> map_token(dict, trim_matches(raw[i]))]

RECURSIVE PairLoop(_, _, _)
\* for (token1, token2) in tokens.iter().zip(tokens.iter().skip(1)), from the
\* i-th pair on; st carries the four tables and seen_unigrams
PairLoop(st, tokens, i) ==
  IF i + 1 > Len(tokens) THEN st
  ELSE PairLoop(
         [total_unigrams |-> st.total_unigrams + 1,
          unigram_counts |-> AddTo(st.unigram_counts, tokens[i], 1),
          unigram_article_counts |-> st.unigram_article_counts,
          bigram_counts |-> AddTo(st.bigram_counts, <<tokens[i], tokens[i + 1]>>, 1),
          seen_unigrams |-> st.seen_unigrams \cup {tokens[i]}],
         tokens, i + 1)

\* a tack-on that also counts the only token of a one-token line
tack_on_any_line(tokens) == Len(tokens) >= 1

\* if tokens.len() >= 2
tack_on_last_token(tokens) == Len(tokens) >= 2

\* the tack-on of the last token as a unigram
TackOn(st, tokens) ==
  IF tack_on_last_token(tokens)
  THEN [st EXCEPT !.total_unigrams = @ + 1,
                  !.unigram_counts = AddTo(@, tokens[Len(tokens)], 1)]
  ELSE st

\* for unigram in seen_unigrams: *entry(unigram).or_insert(0) += 1
ArticleLoop(art, seen) ==
  [t \in DOMAIN art \cup seen |->
     IF t \in seen THEN GetOr(art, t, 0) + 1 ELSE art[t]]

\* a line loop that counts an article for every token of the line, the last
\* token and the token of a one-token line included
CountLineAllTokens(r, tokens) ==
  LET st0 == [total_unigrams |-> r.total_unigrams,
              unigram_counts |-> r.unigram_counts,
              unigram_article_counts |-> r.unigram_article_counts,
              bigram_counts |-> r.bigram_counts,
              seen_unigrams |-> {}]
      st1 == PairLoop(st0, tokens, 1)
      st2 == TackOn(st1, tokens)
  IN NgramsResult(st2.total_unigrams, st2.unigram_counts,
                  ArticleLoop(st2.unigram_article_counts, Range(tokens)),
                  st2.bigram_counts)

\* the body of the for loop over the lines, for the line's tokens
CountLine(r, tokens) ==
  LET st0 == [total_unigrams |-> r.total_unigrams,
              unigram_counts |-> r.unigram_counts,
              unigram_article_counts |-> r.unigram_article_counts,
              bigram_counts |-> r.bigram_counts,
              seen_unigrams |-> {}]
      st1 == PairLoop(st0, tokens, 1)
      st2 == TackOn(st1, tokens)
  IN NgramsResult(st2.total_unigrams, st2.unigram_counts,
                  ArticleLoop(st2.unigram_article_counts, st2.seen_unigrams),
                  st2.bigram_counts)

RECURSIVE CountLines(_, _, _)
CountLines(r, dict, lines) ==
  IF lines = <<>> THEN r
  ELSE CountLines(CountLine(r, Tokenize(dict, Head(lines))), dict, Tail(lines))

\* calculate_ngrams on the lines LineIterator yields for the file
calculate_ngrams(dict, lines) == CountLines(EmptyResult, dict, lines)

(***************************************************************************)
(* merge_ngrams_results (create_frequencies.rs).                           *)
(***************************************************************************)
\* a merge that lets the later result's count replace the earlier one
merge_entry_overwrite(m, key, count) ==
  [x \in DOMAIN m \cup {key} |-> IF x = key THEN count ELSE m[x]]

\* let existing_count = map.entry(key).or_insert(0); *existing_count += count
merge_entry(m, key, count) == AddTo(m, key, count)

RECURSIVE MergeMap(_, _)
\* for (key, count) in from.into_iter(): merge_entry (the keys of one map are
\* distinct, so the order of the iteration does not show in the result)
MergeMap(into, from) ==
  IF DOMAIN from = {} THEN into
  ELSE LET k == CHOOSE x \in DOMAIN from : TRUE
       IN MergeMap(merge_entry(into, k, from[k]),
                   [x \in DOMAIN from \ {k} |-> from[x]])

\* the body of `for result in iter`
MergeOne(acc, result) ==
  NgramsResult(acc.total_unigrams + result.total_unigrams,
               MergeMap(acc.unigram_counts, result.unigram_counts),
               MergeMap(acc.unigram_article_counts, result.unigram_article_counts),
               MergeMap(acc.bigram_counts, result.bigram_counts))

RECURSIVE MergeFrom(_, _)
MergeFrom(acc, results) ==
  IF results = <<>> THEN acc
  ELSE MergeFrom(MergeOne(acc, Head(results)), Tail(results))

\* merge_ngrams_results(iter), iter yielding the sequence `results` in order
merge_ngrams_results(results) == MergeFrom(EmptyResult, results)

(***************************************************************************)
(* persist_to_file (create_frequencies.rs): the text of the frequency file *)
(* as its header fields and its rows.                                      *)
(***************************************************************************)
MINIMUM_ARTICLE_THRESHOLD == 40

\* a filter that lets a count equal to the threshold pass
passes_threshold_inclusive(art, token) ==
  IF token \in DOMAIN art THEN art[token] >= MINIMUM_ARTICLE_THRESHOLD ELSE TRUE

\* *unigram_article_counts.get(token).unwrap_or(&u64::max_value()) > THRESHOLD:
\* for a token without entry the comparison is u64::MAX > 40, which is true
passes_threshold(art, token) ==
  IF token \in DOMAIN art THEN art[token] > MINIMUM_ARTICLE_THRESHOLD ELSE TRUE

\* the keys of a BTreeMap<String, _> in iteration order: ascending, the i-th
\* key being the one with i - 1 keys below it
SortedStrings(keys) ==
  [i \in 1..Cardinality(keys) |->
     CHOOSE k \in keys : Cardinality({y \in keys : StrLess(y, k)}) = i - 1]

\* the keys of a BTreeMap<(String, String), _> in iteration order
SortedPairs(keys) ==
  [i \in 1..Cardinality(keys) |->
     CHOOSE k \in keys : Cardinality({y \in keys : PairLess(y, k)}) = i - 1]

\* the rows written under \1-grams: <<count, token>>
UnigramRows(r) ==
  LET keep(token) == passes_threshold(r.unigram_article_counts, token)
      kept == SelectSeq(SortedStrings(DOMAIN r.unigram_counts), keep)
  IN [i \in DOMAIN kept |-> <<r.unigram_counts[kept[i]], kept[i]>>]

\* the rows written under \2-grams: <<count, token1, token2>>
BigramRows(r) ==
  LET keep(pair) == /\ passes_threshold(r.unigram_article_counts, pair[1])
                    /\ passes_threshold(r.unigram_article_counts, pair[2])
      kept == SelectSeq(SortedPairs(DOMAIN r.bigram_counts), keep)
  IN [i \in DOMAIN kept |-> <<r.bigram_counts[kept[i]], kept[i][1], kept[i][2]>>]

\* what persist_to_file writes for the result
persist_to_file(r) ==
  [total_unigrams |-> r.total_unigrams,
   ngram1 |-> Cardinality(DOMAIN r.unigram_counts),
   ngram2 |-> Cardinality(DOMAIN r.bigram_counts),
   unigrams |-> UnigramRows(r),
   bigrams |-> BigramRows(r)]

\* no file
NoFile == [total_unigrams |-> -1]
\* no result
NoResult == [total_unigrams |-> -1]

(***************************************************************************)
(* State.                                                                  *)
(*                                                                         *)
(* One run of calculate_ngrams over the lines of a file (SpecCount,        *)
(* SpecThreshold):                                                         *)
(*   cphase      "off", "reading" (inside the for loop over the lines),    *)
(*               "written" (merged and persisted)                          *)
(*   cdict       dict                                                      *)
(*   line        the line LineIterator yielded last                        *)
(*   tokens      the Vec tokens of that line                               *)
(*   before      the four tables before that line                          *)
(*   acc         the four tables after that line                           *)
(*   nlines      lines read so far                                         *)
(*   containing  for each token, the number of lines read so far whose     *)
(*               token sequence contains it (the article count by its      *)
(*               definition; not a variable of the program)                *)
(*   cout        the frequency file written from acc                       *)
(***************************************************************************)
VARIABLES cphase, cdict, line, tokens, before, acc, nlines, containing, cout

countVars == <<cphase, cdict, line, tokens, before, acc, nlines, containing, cout>>

CountOff ==
  /\ cphase = "off" /\ cdict = {} /\ line = <<>> /\ tokens = <<>>
  /\ before = EmptyResult /\ acc = EmptyResult /\ nlines = 0
  /\ containing = EmptyMap /\ cout = NoFile

CountInit ==
  /\ cphase = "reading" /\ cdict = get_dictionary("en").dict
  /\ line = <<>> /\ tokens = <<>>
  /\ before = EmptyResult /\ acc = EmptyResult /\ nlines = 0
  /\ containing = EmptyMap /\ cout = NoFile

\* the lines of the shard files of SpecCount (read_line keeps the "\n")
NL == <<"\n">>
SP == <<" ">>
CountFileLines ==
  { the \o SP \o cat \o NL,
    cat \o NL,
    NL,
    the \o SP \o the \o SP \o cat \o NL,
    dog \o SP \o <<"!">> \o cat \o <<"!">> \o SP \o <<"-">> \o NL,
    <<"T", "h", "e">> \o SP \o cat \o SP \o the \o NL }

\* the lines of the articles of SpecThreshold
ThresholdFileLines ==
  { the \o SP \o cat \o NL,
    the \o SP \o the \o NL,
    cat \o NL }

\* one iteration of `for line in LineIterator::new(input_file)`
ProcessLine(l) ==
  /\ cphase = "reading"
  /\ line' = l
  /\ tokens' = Tokenize(cdict, l)
  /\ before' = acc
  /\ acc' = CountLine(acc, tokens')
  /\ nlines' = nlines + 1
  /\ containing' = ArticleLoop(containing, Range(tokens'))
  /\ UNCHANGED <<cphase, cdict, cout>>

\* end of the file: the result is returned, merged as the only shard and
\* persisted (handle_create_frequencies with one worker result)
Finish ==
  /\ cphase = "reading"
  /\ cphase' = "written"
  /\ cout' = persist_to_file(merge_ngrams_results(<<acc>>))
  /\ UNCHANGED <<cdict, line, tokens, before, acc, nlines, containing>>

ReadCountLine == \E l \in CountFileLines : nlines < MaxLines /\ ProcessLine(l)

ReadArticle == \E l \in ThresholdFileLines : nlines < MaxArticles /\ ProcessLine(l)

(***************************************************************************)
(* Operands of a merge (SpecMerge):                                        *)
(*   mphase   "off", "operands", "merged"                                  *)
(*   ops      three partial results R1, R2, R3                             *)
(*   mres     the results of merging them in different orders/groupings    *)
(***************************************************************************)
VARIABLES mphase, ops, mres

mergeVars == <<mphase, ops, mres>>

MergeOff == mphase = "off" /\ ops = <<>> /\ mres = <<>>

MergeFileLines ==
  { the \o SP \o cat \o NL,
    cat \o SP \o the \o SP \o the \o NL,
    dog \o SP \o dog \o NL,
    cat \o NL }

RECURSIVE SeqsUpTo(_, _)
\* the sequences over S of length at most n
SeqsUpTo(S, n) ==
  IF n = 0 THEN {<<>>}
  ELSE LET shorter == SeqsUpTo(S, n - 1)
       IN shorter \cup {Append(q, x) : q \in shorter, x \in S}

\* the partial results of the shards of at most MaxShardLines lines
PartialResults ==
  {calculate_ngrams(get_dictionary("en").dict, ls) :
     ls \in SeqsUpTo(MergeFileLines, MaxShardLines)}

MergeInit ==
  /\ mphase = "operands"
  /\ ops \in PartialResults \X PartialResults \X PartialResults
  /\ mres = <<>>

\* merge_ngrams_results applied to the operands in both orders and groupings
ApplyMerge ==
  /\ mphase = "operands"
  /\ mphase' = "merged"
  /\ mres' = [m12 |-> merge_ngrams_results(<<ops[1], ops[2]>>),
              m21 |-> merge_ngrams_results(<<ops[2], ops[1]>>),
              m12_3 |-> merge_ngrams_results(
                          <<merge_ngrams_results(<<ops[1], ops[2]>>), ops[3]>>),
              m1_23 |-> merge_ngrams_results(
                          <<ops[1], merge_ngrams_results(<<ops[2], ops[3]>>)>>)]
  /\ UNCHANGED ops

(***************************************************************************)
(* The pipeline: handle_create_frequencies and calculate_ngrams_threaded   *)
(* (Spec).                                                                 *)
(*   pc          where the main thread is: "get_dictionary", "read_dir",   *)
(*               "for_each", "join_all" (the end of pool.scoped),          *)
(*               "drop_tx", "merge", "persist", "done" (Ok(())),           *)
(*               "returned_err" (Err returned), "panicked"                 *)
(*   dict        the dictionary                                            *)
(*   corpus      the articles, one line each                               *)
(*   content     for each file of the directory, its lines                 *)
(*   poolSize    threads of the pool                                       *)
(*   pending     entries read_dir has not yielded yet                      *)
(*   jobs        the pool's queue of jobs, each the input_file it holds    *)
(*   worker      for each pool thread "idle", "running" or "panicked"      *)
(*   current     for each pool thread the input_file of its job            *)
(*   senders     live Sender handles of the fan-in channel (tx and clones) *)
(*   chan        the fan-in channel: results sent and not yet received     *)
(*   merged      the result of merge_ngrams_results                        *)
(*   output      the frequency file                                        *)
(* and, recorded for the properties (not variables of the program):        *)
(*   started     for each file, the number of jobs begun on it             *)
(*   arrival     the input_files of the results sent, in order of sending  *)
(*   truncated   a read error ended the line stream of some shard early    *)
(*   setupError  the setup error that occurred: "none", "language",        *)
(*               "directory" or "output"                                   *)
(*                                                                         *)
(* The pool is scoped_threadpool's: scope.execute sends the job over the   *)
(* pool's job channel; a job that panics unwinds its pool thread, which    *)
(* takes no further job; dropping the Scope joins the threads and panics   *)
(* with "Thread pool worker panicked" if one of them is gone.  The fan-in  *)
(* channel is std::sync::mpsc::channel(), which is unbounded.  A panic of  *)
(* the main thread ends the process.                                       *)
(***************************************************************************)
VARIABLES pc, dict, corpus, content, poolSize, pending, jobs, worker, current,
          senders, chan, merged, output, started, arrival, truncated, setupError

pipeVars == <<pc, dict, corpus, content, poolSize, pending, jobs, worker, current,
              senders, chan, merged, output, started, arrival, truncated, setupError>>

vars == <<pipeVars, countVars, mergeVars>>

PipeOff ==
  /\ pc = "off" /\ dict = {} /\ corpus = <<>> /\ content = <<>> /\ poolSize = 0
  /\ pending = {} /\ jobs = <<>> /\ worker = <<>> /\ current = <<>>
  /\ senders = 0 /\ chan = <<>> /\ merged = NoResult /\ output = NoFile
  /\ started = <<>> /\ arrival = <<>> /\ truncated = FALSE /\ setupError = "none"

split == <<"s", "p", "l", "i", "t">>

\* str::contains
Contains(s, pat) ==
  \E i \in 0..(Len(s) - Len(pat)) : SubSeq(s, i + 1, i + Len(pat)) = pat

\* the entries of input_dir: the shard files 1..NShards, a regular file that is
\* no shard (a frequency file written earlier) and a sub-directory
OtherFile == NShards + 1
SubDir == NShards + 2
DirEntries == 1..(NShards + 2)

\* path.file_stem()
FileStem(f) ==
  IF f = OtherFile THEN <<"e", "n", ".", "t", "x", "t">>
  ELSE IF f = SubDir THEN split \o <<"s">>
  ELSE IF f % 2 = 1 THEN split \o <<"-", "a">>
  ELSE <<"e", "n", "-">> \o split

\* path.is_file()
IsFile(f) == f # SubDir

\* a selection that takes every regular file
is_shard_any_file(f) == IsFile(f)

\* a selection by the stem alone, directories included
is_shard_stem_only(f) == Contains(FileStem(f), split)

\* the two filters of calculate_ngrams_threaded
is_shard(f) == IsFile(f) /\ Contains(FileStem(f), split)

\* the articles of the corpus: NArticles lines, alternating between two texts
Article(i) ==
  IF i % 2 = 1 THEN the \o SP \o cat \o <<".">> \o NL
  ELSE dog \o SP \o <<"-">> \o SP \o the \o NL

Corpus == [i \in 1..NArticles |-> Article(i)]

\* the lines of corpus that the splitter put in shard f, in corpus order
RECURSIVE ShardLines(_, _, _)
ShardLines(c, shardOf, f) ==
  IF c = <<>> THEN <<>>
  ELSE (IF Head(shardOf) = f THEN <<Head(c)>> ELSE <<>>)
       \o ShardLines(Tail(c), Tail(shardOf), f)

Max(a, b) == IF a >= b THEN a ELSE b

Init ==
  /\ pc = "get_dictionary"
  /\ dict = {}
  /\ corpus = Corpus
  /\ \E shardOf \in [1..NArticles -> 1..NShards] :
       content = [f \in DirEntries |->
                    IF f = OtherFile THEN <<cat \o SP \o cat \o NL>>
                    ELSE IF f = SubDir THEN <<>>
                    ELSE ShardLines(corpus, shardOf, f)]
  \* Pool::new(max(num_cpus::get() as u32 - 1, 1))
  /\ \E cpus \in 1..MaxCpus : poolSize = Max(cpus - 1, 1)
  /\ pending = {}
  /\ jobs = <<>>
  /\ worker = [w \in 1..poolSize |-> "idle"]
  /\ current = [w \in 1..poolSize |-> 0]
  /\ senders = 1
  /\ chan = <<>>
  /\ merged = NoResult
  /\ output = NoFile
  /\ started = [f \in DirEntries |-> 0]
  /\ arrival = <<>>
  /\ truncated = FALSE
  /\ setupError = "none"
  /\ CountOff
  /\ MergeOff

Workers == 1..poolSize

\* let dictionary = get_dictionary(language_code)?
GetDictionary ==
  /\ pc = "get_dictionary"
  /\ \E language_code \in LanguageCodes :
       /\ dict' = get_dictionary(language_code).dict
       /\ pc' = IF get_dictionary(language_code).ok THEN "read_dir" ELSE "returned_err"
       /\ setupError' = IF language_code \in SupportedLanguages
                        THEN setupError ELSE "language"
  /\ UNCHANGED <<corpus, content, poolSize, pending, jobs, worker, current,
                 senders, chan, merged, output, started, arrival, truncated>>

\* input_dir.read_dir().unwrap(), the first thing the scope's closure does
ReadDir ==
  /\ pc = "read_dir"
  /\ \E readable \in BOOLEAN :
       IF readable
       THEN pending' = DirEntries /\ pc' = "for_each" /\ UNCHANGED setupError
       ELSE pc' = "panicked" /\ setupError' = "directory" /\ UNCHANGED pending
  /\ UNCHANGED <<dict, corpus, content, poolSize, jobs, worker, current,
                 senders, chan, merged, output, started, arrival, truncated>>

\* the iterator chain for one entry: the filters, then tx.clone() and
\* scope.execute, which sends the job to the pool (the send fails, and unwrap
\* panics, when every pool thread is gone)
ForEach(f) ==
  /\ pc = "for_each"
  /\ f \in pending
  /\ pending' = pending \ {f}
  /\ IF ~is_shard(f) THEN UNCHANGED <<pc, jobs, senders>>
     ELSE IF \A w \in Workers : worker[w] = "panicked"
          THEN pc' = "panicked" /\ UNCHANGED <<jobs, senders>>
          ELSE jobs' = Append(jobs, f) /\ senders' = senders + 1 /\ UNCHANGED pc
  /\ UNCHANGED <<dict, corpus, content, poolSize, worker, current,
                 chan, merged, output, started, arrival, truncated, setupError>>

\* read_dir is exhausted: the closure returns and the scope is dropped
EndForEach ==
  /\ pc = "for_each"
  /\ pending = {}
  /\ pc' = "join_all"
  /\ UNCHANGED <<dict, corpus, content, poolSize, pending, jobs, worker, current,
                 senders, chan, merged, output, started, arrival, truncated, setupError>>

\* a join that does not look at the threads that panicked
join_outcome_ignoring_panics(w) == "drop_tx"

\* Scope::join_all: "Thread pool worker panicked" if a thread is gone
join_outcome(w) ==
  IF \E t \in DOMAIN w : w[t] = "panicked" THEN "panicked" ELSE "drop_tx"

\* the drop of the scope: join_all returns once every live thread has taken its
\* Join message, which lie behind the jobs in the queue
JoinAll ==
  /\ pc = "join_all"
  /\ \/ \A w \in Workers : worker[w] = "panicked"
     \/ jobs = <<>> /\ \A w \in Workers : worker[w] # "running"
  /\ pc' = join_outcome(worker)
  /\ UNCHANGED <<dict, corpus, content, poolSize, pending, jobs, worker, current,
                 senders, chan, merged, output, started, arrival, truncated, setupError>>

\* drop(tx)
DropTx ==
  /\ pc = "drop_tx"
  /\ senders' = senders - 1
  /\ pc' = "merge"
  /\ UNCHANGED <<dict, corpus, content, poolSize, pending, jobs, worker, current,
                 chan, merged, output, started, arrival, truncated, setupError>>

\* merge_ngrams_results(rx.iter()): rx.iter() ends when the channel is empty and
\* every Sender is dropped
Merge ==
  /\ pc = "merge"
  /\ senders = 0
  /\ merged' = merge_ngrams_results(chan)
  /\ chan' = <<>>
  /\ pc' = "persist"
  /\ UNCHANGED <<dict, corpus, content, poolSize, pending, jobs, worker, current,
                 senders, output, started, arrival, truncated, setupError>>

\* ngrams.persist_to_file: File::create panics if the file cannot be created
Persist ==
  /\ pc = "persist"
  /\ \E creatable \in BOOLEAN :
       IF creatable
       THEN output' = persist_to_file(merged) /\ pc' = "done" /\ UNCHANGED setupError
       ELSE pc' = "panicked" /\ setupError' = "output" /\ UNCHANGED output
  /\ UNCHANGED <<dict, corpus, content, poolSize, pending, jobs, worker, current,
                 senders, chan, merged, started, arrival, truncated>>

\* a pool thread receives Message::NewJob
WorkerTake(w) ==
  /\ worker[w] = "idle"
  /\ jobs # <<>>
  /\ worker' = [worker EXCEPT ![w] = "running"]
  /\ current' = [current EXCEPT ![w] = Head(jobs)]
  /\ jobs' = Tail(jobs)
  /\ started' = [started EXCEPT ![Head(jobs)] = @ + 1]
  /\ UNCHANGED <<pc, dict, corpus, content, poolSize, pending,
                 senders, chan, merged, output, arrival, truncated, setupError>>

\* File::open(input_file).unwrap() panics in LineIterator::new: the job unwinds
\* (dropping its tx) and the pool thread is gone
WorkerOpenFail(w) ==
  /\ worker[w] = "running"
  /\ worker' = [worker EXCEPT ![w] = "panicked"]
  /\ senders' = senders - 1
  /\ UNCHANGED <<pc, dict, corpus, content, poolSize, pending, jobs, current,
                 chan, merged, output, started, arrival, truncated, setupError>>

\* a channel of capacity 1 (sync_channel(1)): send waits while it is full
can_send_bounded(c) == Len(c) < 1

\* mpsc::channel() is asynchronous with an unbounded buffer: tx.send returns
\* at once, whatever the number of results waiting in the channel
can_send(c) == TRUE

\* tx.send(result) of the job that thread w runs can go ahead
ReadyToSend(w) == worker[w] = "running" /\ can_send(chan)

\* the job runs calculate_ngrams on the first k lines and sends the result; k
\* is the number of lines LineIterator yields before it returns None
WorkerSend(w, k) ==
  /\ ReadyToSend(w)
  /\ chan' = Append(chan, calculate_ngrams(dict, SubSeq(content[current[w]], 1, k)))
  /\ arrival' = Append(arrival, current[w])
  /\ truncated' = (truncated \/ k < Len(content[current[w]]))
  /\ senders' = senders - 1
  /\ worker' = [worker EXCEPT ![w] = "idle"]
  /\ UNCHANGED <<pc, dict, corpus, content, poolSize, pending, jobs, current,
                 merged, output, started, setupError>>

\* read_line returns Ok(0) at the end of the file
WorkerFinish(w) ==
  /\ worker[w] = "running"
  /\ WorkerSend(w, Len(content[current[w]]))

\* read_line returns Err after k lines: LineIterator::next returns None
WorkerReadError(w) ==
  /\ worker[w] = "running"
  /\ \E k \in 0..(Len(content[current[w]]) - 1) : WorkerSend(w, k)

Next ==
  \/ GetDictionary /\ UNCHANGED <<countVars, mergeVars>>
  \/ ReadDir /\ UNCHANGED <<countVars, mergeVars>>
  \/ (\E f \in DirEntries : ForEach(f)) /\ UNCHANGED <<countVars, mergeVars>>
  \/ EndForEach /\ UNCHANGED <<countVars, mergeVars>>
  \/ JoinAll /\ UNCHANGED <<countVars, mergeVars>>
  \/ DropTx /\ UNCHANGED <<countVars, mergeVars>>
  \/ Merge /\ UNCHANGED <<countVars, mergeVars>>
  \/ Persist /\ UNCHANGED <<countVars, mergeVars>>
  \/ (\E w \in Workers : WorkerTake(w)) /\ UNCHANGED <<countVars, mergeVars>>
  \/ (\E w \in Workers : WorkerOpenFail(w)) /\ UNCHANGED <<countVars, mergeVars>>
  \/ (\E w \in Workers : WorkerFinish(w)) /\ UNCHANGED <<countVars, mergeVars>>
  \/ (\E w \in Workers : WorkerReadError(w)) /\ UNCHANGED <<countVars, mergeVars>>

Spec == Init /\ [][Next]_vars

\* the steps of the main thread, and a pool thread taking a job
MainStep ==
  /\ \/ GetDictionary \/ ReadDir \/ (\E f \in DirEntries : ForEach(f))
     \/ EndForEach \/ JoinAll \/ DropTx \/ Merge \/ Persist
     \/ (\E w \in Workers : WorkerTake(w))
  /\ UNCHANGED <<countVars, mergeVars>>

\* a job reaches the end of its file and sends its result
SendStep ==
  /\ \E w \in Workers : WorkerFinish(w)
  /\ UNCHANGED <<countVars, mergeVars>>

\* some job can send its result: the guard of SendStep
SendReady == \E w \in Workers : ReadyToSend(w)

\* the main thread and the pool threads are operating-system threads: a step
\* of the program that stays possible is taken. A panic in File::open and a
\* read error are faults, which need not happen. The second conjunct is
\* WF_vars(SendStep) with the guard of SendStep written out.
FairSpec ==
  /\ Spec
  /\ WF_vars(MainStep)
  /\ ([]<>(~SendReady) \/ []<><<SendStep>>_vars)

(***************************************************************************)
(* The specifications of the pure parts.                                   *)
(***************************************************************************)
InitCount == CountInit /\ PipeOff /\ MergeOff

NextCount == ReadCountLine /\ UNCHANGED <<pipeVars, mergeVars>>

\* calculate_ngrams line by line over the lines of CountFileLines
SpecCount == InitCount /\ [][NextCount]_vars

InitThreshold == CountInit /\ PipeOff /\ MergeOff

NextThreshold ==
  \/ ReadArticle /\ UNCHANGED <<pipeVars, mergeVars>>
  \/ Finish /\ UNCHANGED <<pipeVars, mergeVars>>

\* one shard of up to MaxArticles articles, counted, merged and persisted
SpecThreshold == InitThreshold /\ [][NextThreshold]_vars

InitMerge == MergeInit /\ PipeOff /\ CountOff

NextMerge == ApplyMerge /\ UNCHANGED <<pipeVars, countVars>>

\* merge_ngrams_results over three partial results
SpecMerge == InitMerge /\ [][NextMerge]_vars

(***************************************************************************)
(* Properties.                                                             *)
(***************************************************************************)
\* the point-wise sum of two maps over the union of their keys
MapSum(a, b) ==
  [k \in DOMAIN a \cup DOMAIN b |-> GetOr(a, k, 0) + GetOr(b, k, 0)]

\* C1: merging partial results is point-wise addition over the union of the
\* keys of all four fields, and it is commutative and associative:
\* merge(R1,R2) = merge(R2,R1) and merge(merge(R1,R2),R3) = merge(R1,merge(R2,R3)).
MergeCommutativeAssociative ==
  mphase = "merged" =>
    /\ mres.m12 = mres.m21
    /\ mres.m12_3 = mres.m1_23
    /\ mres.m12 =
         NgramsResult(
           ops[1].total_unigrams + ops[2].total_unigrams,
           MapSum(ops[1].unigram_counts, ops[2].unigram_counts),
           MapSum(ops[1].unigram_article_counts, ops[2].unigram_article_counts),
           MapSum(ops[1].bigram_counts, ops[2].bigram_counts))

\* three different operands merged, two of which count a common token
\* differently and one of which has a bigram the others lack
MergeWitness ==
  /\ mphase = "merged"
  /\ ops[1] # ops[2] /\ ops[2] # ops[3] /\ ops[1] # ops[3]
  /\ \E k \in DOMAIN ops[1].unigram_counts \cap DOMAIN ops[2].unigram_counts :
       ops[1].unigram_counts[k] # ops[2].unigram_counts[k]
  /\ \E p \in DOMAIN ops[3].bigram_counts :
       p \notin DOMAIN ops[1].bigram_counts \cup DOMAIN ops[2].bigram_counts
  /\ mres.m12_3.total_unigrams > mres.m12.total_unigrams

\* the result of processing the whole corpus as a single shard
SingleShardResult == calculate_ngrams(dict, corpus)

\* C2: for a fixed corpus, whenever every line of every shard was read, the
\* merged result equals the result of the corpus processed as one shard, and
\* the file written is the file of that result - for every assignment of the
\* articles to shard files, every pool size and every order of arrival.
ShardingInvariance ==
  (merged # NoResult /\ ~truncated) =>
    /\ merged = SingleShardResult
    /\ pc = "done" => output = persist_to_file(SingleShardResult)

\* a run completed with the corpus split over two different non-empty shards,
\* two pool threads, the results arriving against the order of the shards
ShardingWitness ==
  /\ pc = "done" /\ ~truncated
  /\ poolSize = 2
  /\ content[1] # <<>> /\ content[2] # <<>> /\ content[1] # content[2]
  /\ arrival = <<2, 1>>
  /\ output.total_unigrams > 0

\* C3: one line increments unigram_article_counts[t] by exactly 1 for every
\* distinct token t of the line (its last token and the token of a one-token
\* line included) and leaves every other entry as it was.
ArticleCountPerLine ==
  nlines > 0 =>
    \A t \in DOMAIN before.unigram_article_counts
             \cup DOMAIN acc.unigram_article_counts \cup Range(tokens) :
      GetOr(acc.unigram_article_counts, t, 0) =
        GetOr(before.unigram_article_counts, t, 0)
          + (IF t \in Range(tokens) THEN 1 ELSE 0)

\* the tokens of the rows written under \1-grams
WrittenUnigrams == {cout.unigrams[i][2] : i \in DOMAIN cout.unigrams}

\* C4: end to end, a vocabulary token has a 1-grams line exactly when more
\* than 40 articles (41 or more) contain it.
ThresholdEndToEnd ==
  cphase = "written" =>
    \A t \in cdict :
      (t \in WrittenUnigrams) <=>
        (GetOr(containing, t, 0) > MINIMUM_ARTICLE_THRESHOLD)

\* C5: end to end, a 2-grams line (t1, t2) is written only if t1 and t2 each
\* occur in more than 40 articles.
BigramJointFilter ==
  cphase = "written" =>
    \A i \in DOMAIN cout.bigrams :
      /\ GetOr(containing, cout.bigrams[i][2], 0) > MINIMUM_ARTICLE_THRESHOLD
      /\ GetOr(containing, cout.bigrams[i][3], 0) > MINIMUM_ARTICLE_THRESHOLD

\* positions of the line holding token t
Occurrences(t) == {i \in DOMAIN tokens : tokens[i] = t}
\* positions of the line at which the adjacent pair p starts
PairOccurrences(p) ==
  {i \in 1..(Len(tokens) - 1) : <<tokens[i], tokens[i + 1]>> = p}
AdjacentPairs == {<<tokens[i], tokens[i + 1]>> : i \in 1..(Len(tokens) - 1)}

WorkerFailureAborts ==
  /\ (\E w \in Workers : worker[w] = "panicked") =>
       /\ merged = NoResult
       /\ output = NoFile
       /\ pc \in {"for_each", "join_all", "panicked"}
  /\ merged # NoResult =>
       \A f \in DirEntries : is_shard(f) => f \in Range(arrival)

\* the run has aborted on a failed worker after another worker delivered
WorkerFailureWitness ==
  /\ pc = "panicked"
  /\ \E w \in Workers : worker[w] = "panicked"
  /\ arrival # <<>>
  /\ chan # <<>>

\* C8: a read error part-way through a shard is fatal: no frequency file is
\* written from the truncated shard and the run does not end with Ok.
ReadErrorIsFatal ==
  truncated => (output = NoFile /\ pc # "done")

\* C9: every setup error aborts the run before any worker task is started.
SetupErrorBeforeWork ==
  setupError # "none" => \A f \in DirEntries : started[f] = 0

\* C9, amended: an unsupported language and an unreadable directory end the
\* run before any job is queued or started; an output file that cannot be
\* created ends it after every selected shard was processed and merged; no
\* file is written in either case.
SetupErrorTiming ==
  /\ setupError \in {"language", "directory"} =>
       /\ \A f \in DirEntries : started[f] = 0
       /\ jobs = <<>> /\ arrival = <<>> /\ merged = NoResult
       /\ output = NoFile
       /\ pc \in {"returned_err", "panicked"}
  /\ setupError = "output" =>
       /\ pc = "panicked"
       /\ output = NoFile
       /\ merged # NoResult
       /\ \A f \in DirEntries : is_shard(f) => started[f] = 1

\* the output file could not be created, after both shards were processed
SetupErrorWitness ==
  /\ setupError = "output"
  /\ pc = "panicked"
  /\ started[1] = 1 /\ started[2] = 1
  /\ merged.total_unigrams > 0

\* the tokens a result is keyed by
Keys(r) ==
  DOMAIN r.unigram_counts \cup DOMAIN r.unigram_article_counts
    \cup {p[1] : p \in DOMAIN r.bigram_counts}
    \cup {p[2] : p \in DOMAIN r.bigram_counts}

\* the partial results sent and the merged result
ResultsInExistence ==
  Range(chan) \cup (IF merged = NoResult THEN {} ELSE {merged})

\* C10: every key of every partial and merged result is a word of the
\* dictionary or the sentinel "<unk>", and a raw token whose trimmed form is
\* not in the dictionary (the empty string included) becomes the sentinel.
OnlyVocabularyOrSentinel ==
  /\ \A r \in ResultsInExistence : Keys(r) \subseteq dict \cup {OUT_OF_VOCABULARY_WORD}
  \* (dict and content stay as they are once pc = "read_dir")
  /\ pc = "read_dir" =>
       \A f \in DirEntries : \A i \in DOMAIN content[f] :
         LET raw == split_whitespace(content[f][i])
         IN \A j \in DOMAIN raw :
              trim_matches(raw[j]) \notin dict =>
                Tokenize(dict, content[f][i])[j] = OUT_OF_VOCABULARY_WORD

\* a merged result counting the sentinel and a dictionary word, from a corpus
\* with a token that trims to the empty string
OnlyVocabularyWitness ==
  /\ merged # NoResult
  /\ OUT_OF_VOCABULARY_WORD \in DOMAIN merged.unigram_counts
  /\ the \in DOMAIN merged.unigram_counts
  /\ <<OUT_OF_VOCABULARY_WORD, OUT_OF_VOCABULARY_WORD>> \in DOMAIN merged.bigram_counts
  /\ \E i \in DOMAIN corpus :
       \E j \in DOMAIN split_whitespace(corpus[i]) :
         trim_matches(split_whitespace(corpus[i])[j]) = <<>>

MergeSpecResults ==
  {ops[i] : i \in DOMAIN ops}
    \cup (IF mphase = "merged"
          THEN {mres.m12, mres.m21, mres.m12_3, mres.m1_23} ELSE {})

\* C12: in every partial result and every result of merging partial results,
\* unigram_article_counts[t] <= unigram_counts[t] for every token t, an absent
\* unigram_counts entry counting as 0.
ArticleCountAtMostCount ==
  \A r \in MergeSpecResults :
    \A t \in DOMAIN r.unigram_article_counts :
      r.unigram_article_counts[t] <= GetOr(r.unigram_counts, t, 0)

\* a merge of three non-empty partial results in which "the" is in at least
\* three counted articles and occurs more often than that
ArticleCountWitness ==
  /\ mphase = "merged"
  /\ \A i \in DOMAIN ops : ops[i].unigram_article_counts # EmptyMap
  /\ the \in DOMAIN mres.m12_3.unigram_article_counts
  /\ mres.m12_3.unigram_article_counts[the] >= 3
  /\ mres.m12_3.unigram_article_counts[the] < mres.m12_3.unigram_counts[the]

\* the selected shard files: the regular files whose stem contains "split"
SelectedShards == {f \in DirEntries : IsFile(f) /\ Contains(FileStem(f), split)}

\* the number of times f occurs in a sequence
CountIn(q, f) == Cardinality({i \in DOMAIN q : q[i] = f})

\* the results calculate_ngrams can return for file f: those of the lines
\* LineIterator yields before it ends
ShardResults(f) ==
  {calculate_ngrams(dict, SubSeq(content[f], 1, k)) : k \in 0..Len(content[f])}

RECURSIVE SumOfResults(_)
\* the point-wise sum of a sequence of results
SumOfResults(rs) ==
  IF rs = <<>> THEN EmptyResult
  ELSE LET h == Head(rs)
           rest == SumOfResults(Tail(rs))
       IN NgramsResult(
            h.total_unigrams + rest.total_unigrams,
            MapSum(h.unigram_counts, rest.unigram_counts),
            MapSum(h.unigram_article_counts, rest.unigram_article_counts),
            MapSum(h.bigram_counts, rest.bigram_counts))

\* at most one job per selected shard and none for another entry, at most one
\* result per job; when the main thread is about to merge, and once it has
\* merged, every selected shard has been processed and has reported once
OneTaskPerShard ==
  /\ \A f \in DirEntries :
       /\ started[f] <= 1
       /\ f \notin SelectedShards => started[f] = 0
       /\ CountIn(arrival, f) <= started[f]
       /\ CountIn(jobs, f) + started[f] <= 1
  /\ \A w \in Workers :
       worker[w] = "running" =>
         /\ started[current[w]] = 1
         /\ current[w] \notin Range(arrival)
         /\ \A v \in Workers \ {w} :
              worker[v] = "running" => current[v] # current[w]
  /\ pc \in {"drop_tx", "merge"} =>
       /\ Len(chan) = Cardinality(SelectedShards)
       /\ Len(arrival) = Len(chan)
       /\ \A f \in SelectedShards : CountIn(arrival, f) = 1
       /\ \A i \in DOMAIN chan : chan[i] \in ShardResults(arrival[i])
  /\ merged # NoResult =>
       /\ chan = <<>> /\ jobs = <<>> /\ senders = 0
       /\ \A w \in Workers : worker[w] = "idle"
       /\ Len(arrival) = Cardinality(SelectedShards)
       /\ \A f \in SelectedShards : started[f] = 1 /\ CountIn(arrival, f) = 1

\* the step that merges folds each result in the channel once
FoldsEachResultOnce ==
  (pc = "merge" /\ pc' = "persist") =>
    (merged' = SumOfResults(chan) /\ chan' = <<>>)

\* C13: in a run without worker failure each selected shard file (a regular
\* file whose stem contains "split") is processed by exactly one worker task
\* and no other entry by any; the merge folds exactly one partial result per
\* selected shard, each once; and no merged result exists before every
\* dispatched job has reported.
ExactlyOncePerShard == []OneTaskPerShard /\ [][FoldsEachResultOnce]_vars

\* the results of two non-empty shards, processed by two threads, have been
\* merged and the main thread is about to persist
ExactlyOnceWitness ==
  /\ pc = "persist"
  /\ poolSize = 2
  /\ arrival = <<1, 2>>
  /\ content[1] # <<>> /\ content[2] # <<>>
  /\ started[1] = 1 /\ started[2] = 1
  /\ merged.total_unigrams > 0

\* the run has ended: Ok(()), Err or a panic of the main thread
Terminated == pc \in {"done", "returned_err", "panicked"}

\* a failure has occurred: a setup error or a worker that panicked
RunFailed ==
  \/ setupError # "none"
  \/ \E w \in Workers : worker[w] = "panicked"

\* a job that has its result finds the channel ready to take it, and nothing
\* is taken from the channel before the main thread has passed the join and
\* dropped tx
SendNeverBlocks ==
  /\ \A w \in Workers : worker[w] = "running" => ReadyToSend(w)
  /\ pc \in {"read_dir", "for_each", "join_all", "drop_tx", "merge"} =>
       Len(chan) = Len(arrival)

\* C14: delivering a result never blocks, although the channel is drained
\* only after the scope has joined the workers; so every run ends, and a run
\* without failure ends its drain loop with a merged result, all results
\* received and every Sender dropped.
NonBlockingTermination ==
  /\ []SendNeverBlocks
  /\ <>Terminated
  /\ <>(RunFailed \/ (merged # NoResult /\ chan = <<>> /\ senders = 0))

\* both results wait in the channel, sent by the only pool thread, while the
\* main thread has not yet passed the join
NonBlockingWitness ==
  /\ pc = "join_all"
  /\ poolSize = 1
  /\ Len(chan) = 2
  /\ ~RunFailed

====
